---------------------------- MODULE Spec2Model ----------------------------
(***************************************************************************)
(* go-collection: generic List, Map and Set (package collection).          *)
(*                                                                         *)
(* A List is a Go slice: a header (pointer, length, capacity) over a       *)
(* backing array that lives in a heap.  A Map and a Set are Go maps: a     *)
(* pointer to a hash table that lives in a heap.  The element, key and     *)
(* value types are instantiated with int (zero value 0).                   *)
(***************************************************************************)
EXTENDS Integers, Sequences, FiniteSets, TLC

VARIABLES
    kind,    \* which container the program under study holds
    list,    \* List: the slice header held by the List variable
    lmem,    \* heap of backing arrays, by address
    lorig,   \* the slice header of the slice the List was cast from
    mp,      \* Map: address of the hash table held by the Map variable
    mmem,    \* heap of map[Key]Value tables, by address
    st,      \* Set: address of the hash table held by the Set variable
    smem,    \* heap of map[Value]struct{} tables, by address
    call,    \* the last completed method call: arguments, results, pre-state
    pc,      \* position of a running Partitions call
    part,    \* locals of the running Partitions call and its action calls
    data     \* bytes returned by the last MarshalJSON

vars == <<kind, list, lmem, lorig, mp, mmem, st, smem, call, pc, part, data>>

--------------------------------------------------------------------------
(* Bounds of the model *)

MaxVal == 2    \* the element values are 0..MaxVal
MaxLen == 4    \* no list grows beyond MaxLen elements
MaxArgs == 2   \* a variadic call passes at most MaxArgs values
MaxKey == 1    \* the map keys are 0..MaxKey
MaxSize == 3   \* Partitions is called with a size of at most MaxSize
MaxJSON == 2   \* a JSON document holds at most MaxJSON elements or pairs

Values == 0..MaxVal
Empty == 0  \* "var empty Value" for Value = int

Min(a, b) == IF a < b THEN a ELSE b

SeqsUpTo(S, n) == UNION {[1..k -> S] : k \in 0..n}

Zeros(n) == [k \in 1..n |-> Empty]

NilSlice == [ptr |-> "nil", len |-> 0, cap |-> 0]

--------------------------------------------------------------------------
(* Go slices *)

\* []Value(collection): the elements seen through a slice header
Elems(l, mem) == IF l.ptr = "nil" THEN <<>> ELSE SubSeq(mem[l.ptr], 1, l.len)

\* capacities the runtime may give the array append allocates for `need` elements
GrowCaps(l, need) == IF need <= l.cap THEN {l.cap} ELSE need..MaxLen

\* append(l, vs...): in place when the capacity suffices, else into a new array
SliceAppend(l, mem, vs, newcap) ==
    LET need == l.len + Len(vs) IN
    IF need <= l.cap
    THEN [l |-> [l EXCEPT !.len = need],
          mem |-> IF Len(vs) = 0 THEN mem
                  ELSE [mem EXCEPT ![l.ptr] =
                          [k \in 1..l.cap |->
                              IF k > l.len /\ k <= need THEN vs[k - l.len] ELSE @[k]]]]
    ELSE [l |-> [ptr |-> "new", len |-> need, cap |-> newcap],
          mem |-> [mem EXCEPT !["new"] = Elems(l, mem) \o vs \o Zeros(newcap - need)]]

\* reflect.DeepEqual on two []int: nil and empty differ, then length, then elements
DeepEqualSlice(aNil, a, bNil, b) ==
    /\ aNil = bNil
    /\ Len(a) = Len(b)
    /\ \A k \in 1..Len(a) : a[k] = b[k]

--------------------------------------------------------------------------
(* The record of the last call *)

NoCall == [op |-> "none", index |-> 0, key |-> Empty, value |-> Empty,
           values |-> <<>>, elements |-> <<>>, nilArg |-> FALSE, input |-> <<>>,
           pre |-> <<>>, preNil |-> FALSE, modified |-> FALSE, previous |-> Empty,
           equal |-> FALSE, contains |-> FALSE, err |-> FALSE, grew |-> FALSE,
           last |-> [op |-> "none", index |-> 0, value |-> Empty, values |-> <<>>,
                     modified |-> FALSE, err |-> FALSE, pre |-> <<>>]]

\* what a call record keeps of the call completed right before it
Summary(c) == [op |-> c.op, index |-> c.index, value |-> c.value, values |-> c.values,
               modified |-> c.modified, err |-> c.err, pre |-> c.pre]

--------------------------------------------------------------------------
(* List *)

IndexOK(index, n) == index >= 0 /\ index < n

\* the bound of Get taken for Insert
InsertIndexStrict(index, n) == index >= 0 /\ index < n

InsertIndexOK(index, n) == index >= 0 /\ index <= n

ListSetState(r) ==
    /\ list' = r.l
    /\ lmem' = r.mem

ListFrame == UNCHANGED <<kind, lorig, mp, mmem, st, smem, pc, part, data>>

ListCall(op) == [NoCall EXCEPT !.op = op, !.pre = Elems(list, lmem),
                               !.preNil = (list.ptr = "nil"), !.last = Summary(call)]

\* Add: append(*collection, value); return true
ListAddImpl(l, mem, value, newcap) == SliceAppend(l, mem, <<value>>, newcap)

ListAdd ==
    /\ kind = "list"
    /\ list.len + 1 <= MaxLen
    /\ \E value \in Values, newcap \in GrowCaps(list, list.len + 1) :
        /\ ListSetState(ListAddImpl(list, lmem, value, newcap))
        /\ call' = [ListCall("Add") EXCEPT !.value = value, !.modified = TRUE,
                                           !.grew = (list.len + 1 > list.cap)]
    /\ ListFrame

\* AddAll: append(*collection, values...); return len(values) != 0
ListAddAllImpl(l, mem, values, newcap) == SliceAppend(l, mem, values, newcap)

ListAddAll ==
    /\ kind = "list"
    /\ \E values \in SeqsUpTo(Values, MaxArgs) :
        /\ list.len + Len(values) <= MaxLen
        /\ \E newcap \in GrowCaps(list, list.len + Len(values)) :
            /\ ListSetState(ListAddAllImpl(list, lmem, values, newcap))
            /\ call' = [ListCall("AddAll") EXCEPT !.values = values,
                            !.modified = (Len(values) # 0),
                            !.grew = (list.len + Len(values) > list.cap)]
    /\ ListFrame

\* Clear: *collection = make([]Value, 0)
ListClearImpl(l, mem) ==
    [l |-> [ptr |-> "new", len |-> 0, cap |-> 0],
     mem |-> [mem EXCEPT !["new"] = <<>>]]

ListClear ==
    /\ kind = "list"
    /\ ListSetState(ListClearImpl(list, lmem))
    /\ call' = [ListCall("Clear") EXCEPT !.modified = (list.len > 0)]
    /\ ListFrame

\* the body of Delete and of Remove once the position is known:
\* copy(c[index:], c[index+1:]); c[len-1] = empty; c = c[:len-1]
DeleteAt(l, mem, index) ==
    [l |-> [l EXCEPT !.len = l.len - 1],
     mem |-> [mem EXCEPT ![l.ptr] =
                [k \in 1..l.cap |->
                    IF k >= index + 1 /\ k < l.len THEN @[k + 1]
                    ELSE IF k = l.len THEN Empty
                    ELSE @[k]]]]

\* Delete that removes the last element when the index is past the end
ListDeleteClamped(l, mem, index) ==
    IF IndexOK(index, l.len)
    THEN [r |-> DeleteAt(l, mem, index), previous |-> mem[l.ptr][index + 1], err |-> FALSE]
    ELSE IF index >= l.len /\ l.len > 0
    THEN [r |-> DeleteAt(l, mem, l.len - 1), previous |-> mem[l.ptr][l.len], err |-> TRUE]
    ELSE [r |-> [l |-> l, mem |-> mem], previous |-> Empty, err |-> TRUE]

\* Delete: previous = c[index] and the element removed, or err = ErrIndexOutOfRange
\* with previous left at the zero value
ListDeleteImpl(l, mem, index) ==
    IF IndexOK(index, l.len)
    THEN [r |-> DeleteAt(l, mem, index), previous |-> mem[l.ptr][index + 1], err |-> FALSE]
    ELSE [r |-> [l |-> l, mem |-> mem], previous |-> Empty, err |-> TRUE]

ListDelete ==
    /\ kind = "list"
    /\ \E index \in -1..(list.len + 1) :
        LET d == ListDeleteImpl(list, lmem, index) IN
        /\ ListSetState(d.r)
        /\ call' = [ListCall("Delete") EXCEPT !.index = index,
                        !.previous = d.previous, !.err = d.err]
    /\ ListFrame

\* Equal: reflect.DeepEqual([]Value(collection), values)
ListEqualImpl(l, mem, values, valuesNil) ==
    DeepEqualSlice(l.ptr = "nil", Elems(l, mem), valuesNil, values)

\* a call with no arguments passes a nil slice; s.Equal(vs...) passes vs itself
ListEqual ==
    /\ kind = "list"
    /\ \E values \in SeqsUpTo(Values, MaxLen), valuesNil \in BOOLEAN :
        /\ valuesNil => Len(values) = 0
        /\ call' = [ListCall("Equal") EXCEPT !.values = values, !.nilArg = valuesNil,
                        !.equal = ListEqualImpl(list, lmem, values, valuesNil)]
    /\ UNCHANGED <<list, lmem>>
    /\ ListFrame

ListGet ==
    /\ kind = "list"
    /\ \E index \in -1..(list.len + 1) :
        IF IndexOK(index, list.len)
        THEN call' = [ListCall("Get") EXCEPT !.index = index,
                            !.previous = lmem[list.ptr][index + 1]]
        ELSE call' = [ListCall("Get") EXCEPT !.index = index, !.err = TRUE]
    /\ UNCHANGED <<list, lmem>>
    /\ ListFrame

\* Insert that stores the value without shifting the suffix
ListInsertNoShift(l, mem, index, value, newcap) ==
    LET a == SliceAppend(l, mem, <<Empty>>, newcap) IN
    [l |-> a.l, mem |-> [a.mem EXCEPT ![a.l.ptr][index + 1] = value]]

\* Insert: append(c, empty); copy(c[index+1:], c[index:]); c[index] = value
ListInsertImpl(l, mem, index, value, newcap) ==
    LET a == SliceAppend(l, mem, <<Empty>>, newcap) IN
    [l |-> a.l,
     mem |-> [a.mem EXCEPT ![a.l.ptr] =
                [k \in 1..a.l.cap |->
                    IF k = index + 1 THEN value
                    ELSE IF k > index + 1 /\ k <= a.l.len THEN @[k - 1]
                    ELSE @[k]]]]

ListInsert ==
    /\ kind = "list"
    /\ \E index \in -1..(list.len + 1), value \in Values :
        IF InsertIndexOK(index, list.len)
        THEN /\ list.len + 1 <= MaxLen
             /\ \E newcap \in GrowCaps(list, list.len + 1) :
                  ListSetState(ListInsertImpl(list, lmem, index, value, newcap))
             /\ call' = [ListCall("Insert") EXCEPT !.index = index, !.value = value,
                            !.grew = (list.len + 1 > list.cap)]
        ELSE /\ UNCHANGED <<list, lmem>>
             /\ call' = [ListCall("Insert") EXCEPT !.index = index, !.value = value,
                            !.err = TRUE]
    /\ ListFrame

\* InsertAll that appends the values whatever the index
ListInsertAllAtEnd(l, mem, index, values, newcap) == SliceAppend(l, mem, values, newcap)

\* InsertAll: append(c[:index], append(values, c[index:]...)...)
ListInsertAllImpl(l, mem, index, values, newcap) ==
    LET inner == values \o SubSeq(Elems(l, mem), index + 1, l.len) IN
    SliceAppend([l EXCEPT !.len = index], mem, inner, newcap)

ListInsertAll ==
    /\ kind = "list"
    /\ \E index \in -1..(list.len + 1), values \in SeqsUpTo(Values, MaxArgs) :
        IF InsertIndexOK(index, list.len)
        THEN /\ list.len + Len(values) <= MaxLen
             /\ \E newcap \in GrowCaps(list, list.len + Len(values)) :
                  ListSetState(ListInsertAllImpl(list, lmem, index, values, newcap))
             /\ call' = [ListCall("InsertAll") EXCEPT !.index = index,
                            !.values = values,
                            !.grew = (list.len + Len(values) > list.cap)]
        ELSE /\ UNCHANGED <<list, lmem>>
             /\ call' = [ListCall("InsertAll") EXCEPT !.index = index,
                            !.values = values, !.err = TRUE]
    /\ ListFrame

\* the last index whose value equals value
LastIndexOf(s, value) ==
    IF \E k \in 1..Len(s) : s[k] = value
    THEN (CHOOSE k \in 1..Len(s) : s[k] = value /\ \A j \in (k + 1)..Len(s) : s[j] # value) - 1
    ELSE -1

\* Remove: the first index whose value DeepEquals value, then the body of Delete
FirstIndexOf(s, value) ==
    IF \E k \in 1..Len(s) : s[k] = value
    THEN (CHOOSE k \in 1..Len(s) : s[k] = value /\ \A j \in 1..(k - 1) : s[j] # value) - 1
    ELSE -1

ListRemoveImpl(l, mem, value) ==
    LET index == FirstIndexOf(Elems(l, mem), value) IN
    IF index >= 0 THEN DeleteAt(l, mem, index) ELSE [l |-> l, mem |-> mem]

ListRemove ==
    /\ kind = "list"
    /\ \E value \in Values :
        /\ ListSetState(ListRemoveImpl(list, lmem, value))
        /\ call' = [ListCall("Remove") EXCEPT !.value = value,
                        !.modified = (FirstIndexOf(Elems(list, lmem), value) >= 0)]
    /\ ListFrame

\* an inner loop of RemoveAll that looks at the first value only
RemoveAllSkipsFirst(element, values) == Len(values) > 0 /\ element = values[1]

\* the inner loop of RemoveAll: "continue OuterLoop" when the element equals a value
RemoveAllSkips(element, values) == \E kndex \in 1..Len(values) : element = values[kndex]

\* the inner loop of RetainAll: "continue OuterLoop" when the element differs from a value
RetainAllSkips(element, values) == \E kndex \in 1..Len(values) : element # values[kndex]

\* the outer loop shared by RemoveAll and RetainAll: c[index] = c[jndex]; index++
RECURSIVE FilterLoop(_, _, _, _, _, _)
FilterLoop(arr, n, values, retain, jndex, index) ==
    IF jndex >= n THEN [arr |-> arr, index |-> index]
    ELSE IF (IF retain THEN RetainAllSkips(arr[jndex + 1], values)
                       ELSE RemoveAllSkips(arr[jndex + 1], values))
         THEN FilterLoop(arr, n, values, retain, jndex + 1, index)
         ELSE FilterLoop([arr EXCEPT ![index + 1] = arr[jndex + 1]], n, values, retain,
                         jndex + 1, index + 1)

\* after the loop: copy(c[index:], make([]Value, len-index)); c = c[:index]
FilterInPlace(l, mem, values, retain) ==
    IF l.ptr = "nil" THEN [l |-> l, mem |-> mem, modified |-> FALSE]
    ELSE LET r == FilterLoop(mem[l.ptr], l.len, values, retain, 0, 0) IN
         [l |-> [l EXCEPT !.len = r.index],
          mem |-> [mem EXCEPT ![l.ptr] =
                     [k \in 1..l.cap |->
                         IF k > r.index /\ k <= l.len THEN Empty ELSE r.arr[k]]],
          modified |-> (r.index # l.len)]

ListRemoveAllImpl(l, mem, values) == FilterInPlace(l, mem, values, FALSE)

ListRemoveAll ==
    /\ kind = "list"
    /\ \E values \in SeqsUpTo(Values, MaxArgs) :
        LET r == ListRemoveAllImpl(list, lmem, values) IN
        /\ ListSetState(r)
        /\ call' = [ListCall("RemoveAll") EXCEPT !.values = values,
                        !.modified = r.modified]
    /\ ListFrame

\* RetainAll that collects the kept elements in a slice of its own
ListRetainAllCopy(l, mem, values) ==
    LET r == FilterInPlace(l, mem, values, TRUE) IN
    [l |-> [ptr |-> "new", len |-> r.l.len, cap |-> r.l.len],
     mem |-> [mem EXCEPT !["new"] = Elems(r.l, r.mem)],
     modified |-> r.modified]

ListRetainAllImpl(l, mem, values) == FilterInPlace(l, mem, values, TRUE)

ListRetainAll ==
    /\ kind = "list"
    /\ \E values \in SeqsUpTo(Values, MaxArgs) :
        LET r == ListRetainAllImpl(list, lmem, values) IN
        /\ ListSetState(r)
        /\ call' = [ListCall("RetainAll") EXCEPT !.values = values,
                        !.modified = r.modified]
    /\ ListFrame

\* Reverse: swap c[index] and c[jndex] from both ends
ListReverseImpl(l, mem) ==
    IF l.ptr = "nil" THEN [l |-> l, mem |-> mem]
    ELSE [l |-> l,
          mem |-> [mem EXCEPT ![l.ptr] =
                     [k \in 1..l.cap |-> IF k <= l.len THEN @[l.len + 1 - k] ELSE @[k]]]]

ListReverse ==
    /\ kind = "list"
    /\ ListSetState(ListReverseImpl(list, lmem))
    /\ call' = ListCall("Reverse")
    /\ ListFrame

\* Set: collection[index] = value
ListSetImpl(l, mem, index, value) ==
    [l |-> l, mem |-> [mem EXCEPT ![l.ptr][index + 1] = value]]

ListSet ==
    /\ kind = "list"
    /\ \E index \in -1..(list.len + 1), value \in Values :
        IF IndexOK(index, list.len)
        THEN /\ ListSetState(ListSetImpl(list, lmem, index, value))
             /\ call' = [ListCall("Set") EXCEPT !.index = index, !.value = value]
        ELSE /\ UNCHANGED <<list, lmem>>
             /\ call' = [ListCall("Set") EXCEPT !.index = index, !.value = value,
                            !.err = TRUE]
    /\ ListFrame

\* the comparators a caller passes to Sort: this < that, this > that
Comparator(less, this, that) == IF less = "asc" THEN this < that ELSE this > that

\* sort.Slice: the elements reordered so that no later one sorts before an earlier one
RECURSIVE SortSlice(_, _)
SortSlice(s, less) ==
    IF Len(s) = 0 THEN <<>>
    ELSE LET i == CHOOSE i \in 1..Len(s) : \A j \in 1..Len(s) : ~Comparator(less, s[j], s[i])
         IN <<s[i]>> \o SortSlice(SubSeq(s, 1, i - 1) \o SubSeq(s, i + 1, Len(s)), less)

ListSortImpl(l, mem, less) ==
    IF l.ptr = "nil" THEN [l |-> l, mem |-> mem]
    ELSE LET sorted == SortSlice(Elems(l, mem), less) IN
         [l |-> l,
          mem |-> [mem EXCEPT ![l.ptr] =
                     [k \in 1..l.cap |-> IF k <= l.len THEN sorted[k] ELSE @[k]]]]

ListSort ==
    /\ kind = "list"
    /\ \E less \in {"asc", "desc"} :
        /\ ListSetState(ListSortImpl(list, lmem, less))
        /\ call' = ListCall("Sort")
    /\ ListFrame

\* Swap: previous = collection[index]; collection[index] = value
ListSwap ==
    /\ kind = "list"
    /\ \E index \in -1..(list.len + 1), value \in Values :
        IF IndexOK(index, list.len)
        THEN /\ ListSetState(ListSetImpl(list, lmem, index, value))
             /\ call' = [ListCall("Swap") EXCEPT !.index = index, !.value = value,
                            !.previous = lmem[list.ptr][index + 1]]
        ELSE /\ UNCHANGED <<list, lmem>>
             /\ call' = [ListCall("Swap") EXCEPT !.index = index, !.value = value,
                            !.err = TRUE]
    /\ ListFrame

--------------------------------------------------------------------------
(* Go maps *)

Keys == 0..MaxKey

\* the tables a map[int]int can hold
Tables == UNION {[D -> Values] : D \in SUBSET Keys}

EmptyTable == [k \in {} |-> Empty]

\* the table seen through a map value; a nil map reads as empty
Table(m, mem) == IF m = "nil" THEN EmptyTable ELSE mem[m]

\* collection[key]: the zero value when the key is absent
Lookup(t, key) == IF key \in DOMAIN t THEN t[key] ELSE Empty

\* collection[key] = value
Store(t, key, value) == [k \in DOMAIN t \cup {key} |-> IF k = key THEN value ELSE t[k]]

\* delete(collection, key)
Erase(t, key) == [k \in DOMAIN t \ {key} |-> t[k]]

\* reflect.DeepEqual on two map[int]int: nil and empty differ, then size, then entries
DeepEqualMap(aNil, a, bNil, b) ==
    /\ aNil = bNil
    /\ Cardinality(DOMAIN a) = Cardinality(DOMAIN b)
    /\ \A k \in DOMAIN a : k \in DOMAIN b /\ a[k] = b[k]

--------------------------------------------------------------------------
(* Map *)

MapFrame == UNCHANGED <<kind, list, lmem, lorig, st, smem, pc, part, data>>

MapCall(op) == [NoCall EXCEPT !.op = op, !.pre = Table(mp, mmem), !.preNil = (mp = "nil"),
                              !.last = Summary(call)]

\* Clear: *collection = make(map[Key]Value)
MapClearImpl(m, mem) == [m |-> "new", mem |-> [mem EXCEPT !["new"] = EmptyTable]]

MapClear ==
    /\ kind = "map"
    /\ LET r == MapClearImpl(mp, mmem) IN mp' = r.m /\ mmem' = r.mem
    /\ call' = [MapCall("Clear") EXCEPT
                    !.modified = (Cardinality(DOMAIN Table(mp, mmem)) > 0)]
    /\ MapFrame

\* ContainsAll that reads collection[key] without the test for its existence
MapContainsAllNoExists(t, elements) ==
    \A key \in DOMAIN elements : Lookup(t, key) = elements[key]

\* ContainsAll: every key of elements exists and its value DeepEquals
MapContainsAllImpl(t, elements) ==
    \A key \in DOMAIN elements : key \in DOMAIN t /\ t[key] = elements[key]

MapContainsAll ==
    /\ kind = "map"
    /\ \E elements \in Tables :
        call' = [MapCall("ContainsAll") EXCEPT !.elements = elements,
                    !.contains = MapContainsAllImpl(Table(mp, mmem), elements)]
    /\ UNCHANGED <<mp, mmem>>
    /\ MapFrame

\* Equal: reflect.DeepEqual(map[Key]Value(collection), elements)
MapEqualImpl(m, mem, elements, elementsNil) ==
    DeepEqualMap(m = "nil", Table(m, mem), elementsNil, elements)

MapEqual ==
    /\ kind = "map"
    /\ \E elements \in Tables, elementsNil \in BOOLEAN :
        /\ elementsNil => elements = EmptyTable
        /\ call' = [MapCall("Equal") EXCEPT !.elements = elements,
                        !.nilArg = elementsNil,
                        !.equal = MapEqualImpl(mp, mmem, elements, elementsNil)]
    /\ UNCHANGED <<mp, mmem>>
    /\ MapFrame

\* Put: collection[key] = value (an assignment to an entry of a nil map panics)
MapPutImpl(m, mem, key, value) == [mem EXCEPT ![m] = Store(@, key, value)]

MapPut ==
    /\ kind = "map"
    /\ mp # "nil"
    /\ \E key \in Keys, value \in Values :
        /\ mmem' = MapPutImpl(mp, mmem, key, value)
        /\ call' = [MapCall("Put") EXCEPT !.key = key, !.value = value]
    /\ UNCHANGED mp
    /\ MapFrame

\* PutAll: collection[key] = value for each element
MapPutAllImpl(m, mem, elements) ==
    [mem EXCEPT ![m] = [k \in DOMAIN @ \cup DOMAIN elements |->
                           IF k \in DOMAIN elements THEN elements[k] ELSE @[k]]]

MapPutAll ==
    /\ kind = "map"
    /\ mp # "nil"
    /\ \E elements \in Tables :
        /\ mmem' = MapPutAllImpl(mp, mmem, elements)
        /\ call' = [MapCall("PutAll") EXCEPT !.elements = elements]
    /\ UNCHANGED mp
    /\ MapFrame

\* Remove: previous = collection[key]; delete(collection, key)
MapRemoveImpl(m, mem, key) == IF m = "nil" THEN mem ELSE [mem EXCEPT ![m] = Erase(@, key)]

MapRemove ==
    /\ kind = "map"
    /\ \E key \in Keys :
        /\ mmem' = MapRemoveImpl(mp, mmem, key)
        /\ call' = [MapCall("Remove") EXCEPT !.key = key,
                        !.previous = Lookup(Table(mp, mmem), key)]
    /\ UNCHANGED mp
    /\ MapFrame

\* Swap that stores the value only where the key is absent
MapSwapIfAbsent(m, mem, key, value) ==
    [mem EXCEPT ![m] = IF key \in DOMAIN @ THEN @ ELSE Store(@, key, value)]

\* Swap: previous = collection[key]; collection[key] = value
MapSwapImpl(m, mem, key, value) == [mem EXCEPT ![m] = Store(@, key, value)]

MapSwap ==
    /\ kind = "map"
    /\ mp # "nil"
    /\ \E key \in Keys, value \in Values :
        /\ mmem' = MapSwapImpl(mp, mmem, key, value)
        /\ call' = [MapCall("Swap") EXCEPT !.key = key, !.value = value,
                        !.previous = Lookup(Table(mp, mmem), key)]
    /\ UNCHANGED mp
    /\ MapFrame

--------------------------------------------------------------------------
(* Set *)

\* the values of a map[Value]struct{}; a nil set reads as empty
Members(s, mem) == IF s = "nil" THEN {} ELSE mem[s]

Range(vs) == {vs[k] : k \in 1..Len(vs)}

SetFrame == UNCHANGED <<kind, list, lmem, lorig, mp, mmem, pc, part, data>>

SetCall(op) == [NoCall EXCEPT !.op = op, !.pre = Members(st, smem), !.preNil = (st = "nil"),
                              !.last = Summary(call)]

\* Add that tests for the value and does not store it
SetAddNoStore(s, mem, value) == mem

\* Add: _, modified = collection[value]; collection[value] = struct{}{}; return !modified
SetAddImpl(s, mem, value) == [mem EXCEPT ![s] = @ \cup {value}]

SetAdd ==
    /\ kind = "set"
    /\ st # "nil"
    /\ \E value \in Values :
        /\ smem' = SetAddImpl(st, smem, value)
        /\ call' = [SetCall("Add") EXCEPT !.value = value,
                        !.modified = ~(value \in smem[st])]
    /\ UNCHANGED st
    /\ SetFrame

\* AddAll: modified = modified || !contains for each value in turn
RECURSIVE SetAddAllLoop(_, _, _, _)
SetAddAllLoop(members, values, k, modified) ==
    IF k > Len(values) THEN [members |-> members, modified |-> modified]
    ELSE SetAddAllLoop(members \cup {values[k]}, values, k + 1,
                       modified \/ ~(values[k] \in members))

SetAddAll ==
    /\ kind = "set"
    /\ \E values \in SeqsUpTo(Values, MaxArgs) :
        /\ st = "nil" => Len(values) = 0
        /\ LET r == SetAddAllLoop(Members(st, smem), values, 1, FALSE) IN
            /\ smem' = IF st = "nil" THEN smem ELSE [smem EXCEPT ![st] = r.members]
            /\ call' = [SetCall("AddAll") EXCEPT !.values = values,
                            !.modified = r.modified]
    /\ UNCHANGED st
    /\ SetFrame

\* Clear: *collection = make(map[Value]struct{})
SetClearImpl(s, mem) == [s |-> "new", mem |-> [mem EXCEPT !["new"] = {}]]

SetClear ==
    /\ kind = "set"
    /\ LET r == SetClearImpl(st, smem) IN st' = r.s /\ smem' = r.mem
    /\ call' = [SetCall("Clear") EXCEPT
                    !.modified = (Cardinality(Members(st, smem)) > 0)]
    /\ SetFrame

\* Equal without the second loop, over the members of the set
SetEqualOneWay(members, values) ==
    IF Cardinality(members) # Len(values) THEN FALSE
    ELSE \A k \in 1..Len(values) : values[k] \in members

\* Equal: the sizes agree, every value is in the set, every member is in the buffer
SetEqualImpl(members, values) ==
    IF Cardinality(members) # Len(values) THEN FALSE
    ELSE IF \E k \in 1..Len(values) : ~(values[k] \in members) THEN FALSE
    ELSE \A value \in members : value \in Range(values)

SetEqual ==
    /\ kind = "set"
    /\ \E values \in SeqsUpTo(Values, MaxArgs + 1) :
        call' = [SetCall("Equal") EXCEPT !.values = values,
                    !.equal = SetEqualImpl(Members(st, smem), values)]
    /\ UNCHANGED <<st, smem>>
    /\ SetFrame

\* Remove: _, modified = collection[value]; delete(collection, value)
SetRemoveImpl(s, mem, value) == IF s = "nil" THEN mem ELSE [mem EXCEPT ![s] = @ \ {value}]

SetRemove ==
    /\ kind = "set"
    /\ \E value \in Values :
        /\ smem' = SetRemoveImpl(st, smem, value)
        /\ call' = [SetCall("Remove") EXCEPT !.value = value,
                        !.modified = (value \in Members(st, smem))]
    /\ UNCHANGED st
    /\ SetFrame

\* RemoveAll: modified = contains || modified for each value in turn
RECURSIVE SetRemoveAllLoop(_, _, _, _)
SetRemoveAllLoop(members, values, k, modified) ==
    IF k > Len(values) THEN [members |-> members, modified |-> modified]
    ELSE SetRemoveAllLoop(members \ {values[k]}, values, k + 1,
                          (values[k] \in members) \/ modified)

SetRemoveAll ==
    /\ kind = "set"
    /\ \E values \in SeqsUpTo(Values, MaxArgs) :
        LET r == SetRemoveAllLoop(Members(st, smem), values, 1, FALSE) IN
        /\ smem' = IF st = "nil" THEN smem ELSE [smem EXCEPT ![st] = r.members]
        /\ call' = [SetCall("RemoveAll") EXCEPT !.values = values,
                        !.modified = r.modified]
    /\ UNCHANGED st
    /\ SetFrame

\* RetainAll whose buffer receives the first value only
SetRetainAllFirst(members, values) ==
    LET buffer == IF Len(values) = 0 THEN {} ELSE {values[1]} IN
    [members |-> {value \in members : value \in buffer},
     modified |-> \E value \in members : ~(value \in buffer)]

\* RetainAll: a buffer set of the values, then delete every member not in the buffer
SetRetainAllImpl(members, values) ==
    LET buffer == Range(values) IN
    [members |-> {value \in members : value \in buffer},
     modified |-> \E value \in members : ~(value \in buffer)]

SetRetainAll ==
    /\ kind = "set"
    /\ \E values \in SeqsUpTo(Values, MaxArgs) :
        LET r == SetRetainAllImpl(Members(st, smem), values) IN
        /\ smem' = IF st = "nil" THEN smem ELSE [smem EXCEPT ![st] = r.members]
        /\ call' = [SetCall("RetainAll") EXCEPT !.values = values,
                        !.modified = r.modified]
    /\ UNCHANGED st
    /\ SetFrame

--------------------------------------------------------------------------
(* Partitions: one step of the model per invocation of the action *)

NoPart == [size |-> 0, index |-> 0, partition |-> <<>>, rest |-> {}, calls |-> <<>>]

PartFrame == UNCHANGED <<kind, list, lmem, lorig, mp, mmem, st, smem, call, data>>

\* an invocation of the action: the chunk it received and what it returned
Invoke(chunk, next) == Append(part.calls, [chunk |-> chunk, next |-> next])

\* List.Partitions: "for index < len(collection)-size", written with <=
ListLoopCondInclusive(index, n, size) == index <= n - size

\* List.Partitions: for index < len(collection)-size
ListLoopCond(index, n, size) == index < n - size

\* List.Partitions that goes on whatever the action returns
ListNeverStops(next) == FALSE

\* List.Partitions: if !action(collection[index : index+size]) { return }
ListStops(next) == ~next

\* List.Partitions: if len(collection) > 0 && size > 0
ListPartitions ==
    /\ kind = "list" /\ pc = "idle"
    /\ \E size \in -1..MaxSize :
        /\ part' = [NoPart EXCEPT !.size = size]
        /\ pc' = IF list.len > 0 /\ size > 0 THEN "ListPartitions" ELSE "done"
    /\ PartFrame

ListPartitionsLoop ==
    /\ pc = "ListPartitions"
    /\ ListLoopCond(part.index, list.len, part.size)
    /\ \E next \in BOOLEAN :
        LET chunk == SubSeq(Elems(list, lmem), part.index + 1, part.index + part.size) IN
        IF ListStops(next)
        THEN /\ part' = [part EXCEPT !.calls = Invoke(chunk, next)]
             /\ pc' = "done"
        ELSE /\ part' = [part EXCEPT !.calls = Invoke(chunk, next),
                                     !.index = part.index + part.size]
             /\ pc' = pc
    /\ PartFrame

\* List.Partitions: action(collection[index:])
ListPartitionsLast ==
    /\ pc = "ListPartitions"
    /\ ~ListLoopCond(part.index, list.len, part.size)
    /\ \E next \in BOOLEAN :
        part' = [part EXCEPT !.calls =
                    Invoke(SubSeq(Elems(list, lmem), part.index + 1, list.len), next)]
    /\ pc' = "done"
    /\ PartFrame

\* Set.Partitions: partition := make([]Value, size); index := 0
SetPartitions ==
    /\ kind = "set" /\ pc = "idle"
    /\ \E size \in -1..MaxSize :
        IF Cardinality(Members(st, smem)) > 0 /\ size > 0
        THEN /\ part' = [NoPart EXCEPT !.size = size, !.partition = Zeros(size),
                                       !.rest = Members(st, smem)]
             /\ pc' = "SetPartitions"
        ELSE /\ part' = [NoPart EXCEPT !.size = size]
             /\ pc' = "done"
    /\ PartFrame

\* Set.Partitions: index = (index + 1) % size
SetNextIndex(index, size) == (index + 1) % size

\* Set.Partitions: if index == 0 && !action(partition) { return }
SetInvokes(index) == index = 0

SetStops(next) == ~next

\* Set.Partitions: one iteration of "for element := range collection", in any order
SetPartitionsLoop ==
    /\ pc = "SetPartitions"
    /\ part.rest # {}
    /\ \E element \in part.rest :
        LET partition == [part.partition EXCEPT ![part.index + 1] = element]
            index == SetNextIndex(part.index, part.size)
            p == [part EXCEPT !.partition = partition, !.index = index,
                              !.rest = part.rest \ {element}]
        IN IF SetInvokes(index)
           THEN \E next \in BOOLEAN :
                   /\ part' = [p EXCEPT !.calls = Invoke(partition, next)]
                   /\ pc' = IF SetStops(next) THEN "done" ELSE pc
           ELSE /\ part' = p
                /\ pc' = pc
    /\ PartFrame

\* what a chunk kept by the action shows later: every chunk handed to the action is
\* partition or partition[:index], a slice that starts at the buffer's first slot
KeptChunk(buffer, length) == SubSeq(buffer, 1, length)

\* Set.Partitions that passes the last chunk whatever its length
SetLastCondAlways(index) == TRUE

\* Set.Partitions: if index > 0 { action(partition[:index]) }
SetLastCond(index) == index > 0

SetPartitionsLast ==
    /\ pc = "SetPartitions"
    /\ part.rest = {}
    /\ IF SetLastCond(part.index)
       THEN \E next \in BOOLEAN :
               part' = [part EXCEPT !.calls =
                           Invoke(SubSeq(part.partition, 1, part.index), next)]
       ELSE part' = part
    /\ pc' = "done"
    /\ PartFrame

--------------------------------------------------------------------------
(* encoding/json on []int and map[int]int; a document is a sequence of tokens *)

Digits == <<"0", "1", "2", "3", "4", "5", "6", "7", "8", "9">>

Quoted == <<"\"0\"", "\"1\"", "\"2\"", "\"3\"", "\"4\"", "\"5\"", "\"6\"", "\"7\"",
            "\"8\"", "\"9\"">>

IsNumber(tok) == \E d \in 1..Len(Digits) : Digits[d] = tok

NumberOf(tok) == (CHOOSE d \in 1..Len(Digits) : Digits[d] = tok) - 1

IsString(tok) == tok = "\"x\"" \/ \E d \in 1..Len(Quoted) : Quoted[d] = tok

\* a JSON string that holds a decimal integer, as an object key does for an int key
IsIntString(tok) == \E d \in 1..Len(Quoted) : Quoted[d] = tok

IntOfString(tok) == (CHOOSE d \in 1..Len(Quoted) : Quoted[d] = tok) - 1

IsScalar(tok) == IsNumber(tok) \/ IsString(tok) \/ tok = "null"

\* json.Marshal of a []int: null for a nil slice, else [e1,e2,...]
RECURSIVE MarshalElems(_, _)
MarshalElems(s, k) ==
    IF k > Len(s) THEN <<>>
    ELSE (IF k > 1 THEN <<",">> ELSE <<>>) \o <<Digits[s[k] + 1]>> \o MarshalElems(s, k + 1)

MarshalSlice(isNil, s) ==
    IF isNil THEN <<"null">> ELSE <<"[">> \o MarshalElems(s, 1) \o <<"]">>

\* json.Marshal of a map[int]int: null for a nil map, else {"k1":v1,...}, keys sorted
RECURSIVE MarshalPairs(_, _, _)
MarshalPairs(t, todo, first) ==
    IF todo = {} THEN <<>>
    ELSE LET k == CHOOSE k \in todo : \A j \in todo : k <= j IN
         (IF first THEN <<>> ELSE <<",">>) \o <<Quoted[k + 1], ":", Digits[t[k] + 1]>>
            \o MarshalPairs(t, todo \ {k}, FALSE)

MarshalMap(isNil, t) ==
    IF isNil THEN <<"null">> ELSE <<"{">> \o MarshalPairs(t, DOMAIN t, TRUE) \o <<"}">>

\* the scanner's check of the whole document, before anything is decoded
ValidArray(b) ==
    /\ Len(b) >= 2 /\ b[1] = "[" /\ b[Len(b)] = "]"
    /\ Len(b) = 2 \/ (/\ Len(b) % 2 = 1
                      /\ \A k \in 2..(Len(b) - 1) :
                            IF k % 2 = 0 THEN IsScalar(b[k]) ELSE b[k] = ",")

ValidObject(b) ==
    /\ Len(b) >= 2 /\ b[1] = "{" /\ b[Len(b)] = "}"
    /\ Len(b) = 2 \/ (/\ Len(b) % 4 = 1
                      /\ \A k \in 2..(Len(b) - 1) :
                            CASE k % 4 = 2 -> IsString(b[k])
                              [] k % 4 = 3 -> b[k] = ":"
                              [] k % 4 = 0 -> IsScalar(b[k])
                              [] OTHER -> b[k] = ",")

ValidJSON(b) == ValidArray(b) \/ ValidObject(b) \/ (Len(b) = 1 /\ IsScalar(b[1]))

\* json.Unmarshal(b, &slice): a syntax error or a value that is no array leaves the
\* slice as it is; null makes it nil; an array replaces it, an element that is no
\* number stays zero and is reported as an UnmarshalTypeError after the decoding
DecodeSlice(b, curNil, cur) ==
    IF ~ValidJSON(b) THEN [err |-> TRUE, isNil |-> curNil, elems |-> cur]
    ELSE IF b = <<"null">> THEN [err |-> FALSE, isNil |-> TRUE, elems |-> <<>>]
    ELSE IF ~ValidArray(b) THEN [err |-> TRUE, isNil |-> curNil, elems |-> cur]
    ELSE LET n == (Len(b) - 1) \div 2 IN
         [err |-> \E k \in 1..n : IsString(b[2 * k]),
          isNil |-> FALSE,
          elems |-> [k \in 1..n |-> IF IsNumber(b[2 * k]) THEN NumberOf(b[2 * k]) ELSE Empty]]

\* the pairs of an object stored in order: a key that is no integer is skipped, a
\* value that is no number is stored as zero; both are UnmarshalTypeErrors
RECURSIVE DecodePairs(_, _, _)
DecodePairs(b, k, t) ==
    IF 4 * k > Len(b) THEN t
    ELSE LET key == b[4 * k - 2]
             val == b[4 * k]
         IN DecodePairs(b, k + 1,
                IF IsIntString(key)
                THEN Store(t, IntOfString(key), IF IsNumber(val) THEN NumberOf(val) ELSE Empty)
                ELSE t)

DecodeMap(b, curNil, cur) ==
    IF ~ValidJSON(b) THEN [err |-> TRUE, isNil |-> curNil, table |-> cur]
    ELSE IF b = <<"null">> THEN [err |-> FALSE, isNil |-> TRUE, table |-> EmptyTable]
    ELSE IF ~ValidObject(b) THEN [err |-> TRUE, isNil |-> curNil, table |-> cur]
    ELSE [err |-> \E k \in 1..(Len(b) \div 4) :
                     ~IsIntString(b[4 * k - 2]) \/ IsString(b[4 * k]),
          isNil |-> FALSE,
          table |-> DecodePairs(b, 1, cur)]

\* the documents handed to UnmarshalJSON: arrays and objects of the numbers 0 and
\* 1, the string "x" and null, whole or cut short, and three documents of other kinds
DocNumbers == 0..1

ElemTokens == {Digits[v + 1] : v \in DocNumbers} \cup {"\"x\"", "null"}

KeyTokens == {Quoted[k + 1] : k \in DocNumbers} \cup {"\"x\""}

RECURSIVE Joined(_, _)
Joined(items, k) ==
    IF k > Len(items) THEN <<>>
    ELSE (IF k > 1 THEN <<",">> ELSE <<>>) \o items[k] \o Joined(items, k + 1)

ArrayDocs == {<<"[">> \o Joined(items, 1) \o <<"]">> :
                items \in SeqsUpTo({<<e>> : e \in ElemTokens}, MaxJSON)}

ObjectDocs == {<<"{">> \o Joined(items, 1) \o <<"}">> :
                items \in SeqsUpTo({<<k, ":", e>> : k \in KeyTokens, e \in ElemTokens}, MaxJSON)}

\* a document cut short: its closing bracket is missing
Truncated(docs) == {SubSeq(b, 1, Len(b) - 1) : b \in docs}

ListInputs == ArrayDocs \cup Truncated(ArrayDocs) \cup {<<"null">>, <<"0">>, <<"{", "}">>}

MapInputs == ObjectDocs \cup Truncated(ObjectDocs) \cup {<<"null">>, <<"0">>, <<"[", "]">>}

NoData == [bytes |-> <<>>, src |-> <<>>]

JSONFrame == UNCHANGED <<kind, lorig, pc, part>>

\* List.MarshalJSON: json.Marshal([]Value(collection))
ListMarshalJSON ==
    /\ kind = "list"
    /\ data' = [bytes |-> MarshalSlice(list.ptr = "nil", Elems(list, lmem)),
                src |-> Elems(list, lmem)]
    /\ call' = ListCall("MarshalJSON")
    /\ UNCHANGED <<list, lmem, mp, mmem, st, smem>>
    /\ JSONFrame

\* List.UnmarshalJSON: collection.Clear(); json.Unmarshal(values, (*[]Value)(collection))
ListUnmarshalJSONImpl(l, mem, values, newcap) ==
    LET c == ListClearImpl(l, mem)
        d == DecodeSlice(values, FALSE, <<>>)
    IN [l |-> IF d.isNil THEN NilSlice
              ELSE [ptr |-> "new", len |-> Len(d.elems),
                    cap |-> IF Len(d.elems) = 0 THEN 0 ELSE newcap],
        mem |-> [c.mem EXCEPT !["new"] =
                    IF d.isNil THEN <<>> ELSE d.elems \o Zeros(newcap - Len(d.elems))],
        err |-> d.err]

ListUnmarshalJSON(inputs) ==
    /\ kind = "list"
    /\ \E values \in inputs :
        /\ Len(DecodeSlice(values, FALSE, <<>>).elems) <= MaxLen
        /\ \E newcap \in {Len(DecodeSlice(values, FALSE, <<>>).elems), MaxLen} :
            LET r == ListUnmarshalJSONImpl(list, lmem, values, newcap) IN
            /\ ListSetState(r)
            /\ call' = [ListCall("UnmarshalJSON") EXCEPT !.input = values, !.err = r.err]
    /\ UNCHANGED <<mp, mmem, st, smem, data>>
    /\ JSONFrame

\* Map.MarshalJSON: json.Marshal(map[Key]Value(collection))
MapMarshalJSON ==
    /\ kind = "map"
    /\ data' = [bytes |-> MarshalMap(mp = "nil", Table(mp, mmem)), src |-> Table(mp, mmem)]
    /\ call' = MapCall("MarshalJSON")
    /\ UNCHANGED <<list, lmem, mp, mmem, st, smem>>
    /\ JSONFrame

\* Map.UnmarshalJSON: collection.Clear(); json.Unmarshal(elements, (*map[Key]Value)(collection))
MapUnmarshalJSONImpl(m, mem, elements) ==
    LET c == MapClearImpl(m, mem)
        d == DecodeMap(elements, FALSE, EmptyTable)
    IN [m |-> IF d.isNil THEN "nil" ELSE c.m,
        mem |-> [c.mem EXCEPT !["new"] = d.table],
        err |-> d.err]

MapUnmarshalJSON(inputs) ==
    /\ kind = "map"
    /\ \E elements \in inputs :
        LET r == MapUnmarshalJSONImpl(mp, mmem, elements) IN
        /\ mp' = r.m /\ mmem' = r.mem
        /\ call' = [MapCall("UnmarshalJSON") EXCEPT !.input = elements, !.err = r.err]
    /\ UNCHANGED <<list, lmem, st, smem, data>>
    /\ JSONFrame

\* the orders in which "for value := range collection" may visit a set
Orders(members) ==
    {s \in [1..Cardinality(members) -> members] :
        \A i, j \in 1..Cardinality(members) : i # j => s[i] # s[j]}

\* Set.MarshalJSON: json.Marshal(collection.Slice()), the slice in range order
SetMarshalJSON ==
    /\ kind = "set"
    /\ \E slice \in Orders(Members(st, smem)) :
        data' = [bytes |-> MarshalSlice(FALSE, slice), src |-> Members(st, smem)]
    /\ call' = SetCall("MarshalJSON")
    /\ UNCHANGED <<list, lmem, mp, mmem, st, smem>>
    /\ JSONFrame

\* Set.UnmarshalJSON that adds the decoded values to the members the set holds
SetUnmarshalJSONNoClear(s, mem, values) ==
    LET d == DecodeSlice(values, FALSE, <<>>) IN
    [s |-> "new", mem |-> [mem EXCEPT !["new"] = Members(s, mem) \cup Range(d.elems)],
     err |-> d.err]

\* Set.UnmarshalJSON: buffer := make([]Value, 0); err = json.Unmarshal(values, &buffer);
\* collection.Clear(); every value of buffer is added
SetUnmarshalJSONImpl(s, mem, values) ==
    LET d == DecodeSlice(values, FALSE, <<>>)
        c == SetClearImpl(s, mem)
    IN [s |-> c.s, mem |-> [c.mem EXCEPT !["new"] = Range(d.elems)], err |-> d.err]

SetUnmarshalJSON(inputs) ==
    /\ kind = "set"
    /\ \E values \in inputs :
        LET r == SetUnmarshalJSONImpl(st, smem, values) IN
        /\ st' = r.s /\ smem' = r.mem
        /\ call' = [SetCall("UnmarshalJSON") EXCEPT !.input = values, !.err = r.err]
    /\ UNCHANGED <<list, lmem, mp, mmem, data>>
    /\ JSONFrame

--------------------------------------------------------------------------
(* Specifications *)

NoList == /\ list = NilSlice /\ lorig = NilSlice
          /\ lmem = [a \in {"orig", "new"} |-> <<>>]

NoMap == mp = "nil" /\ mmem = [a \in {"orig", "new"} |-> EmptyTable]

NoSet == st = "nil" /\ smem = [a \in {"orig", "new"} |-> {}]

\* var l List[int], or make(List[int], 0)
InitList ==
    /\ kind = "list"
    /\ lorig = NilSlice
    /\ lmem = [a \in {"orig", "new"} |-> <<>>]
    /\ list \in {NilSlice, [ptr |-> "new", len |-> 0, cap |-> 0]}
    /\ NoMap /\ NoSet

\* var m Map[int, int], or make(Map[int, int])
InitMap ==
    /\ kind = "map"
    /\ mp \in {"nil", "new"}
    /\ mmem = [a \in {"orig", "new"} |-> EmptyTable]
    /\ NoList /\ NoSet

\* var s Set[int], or make(Set[int])
InitSet ==
    /\ kind = "set"
    /\ st \in {"nil", "new"}
    /\ smem = [a \in {"orig", "new"} |-> {}]
    /\ NoList /\ NoMap

NoRun ==
    /\ call = NoCall
    /\ pc = "idle"
    /\ part = NoPart
    /\ data = NoData

Init == (InitList \/ InitMap \/ InitSet) /\ NoRun

\* no call is in progress and the results of the last one have been consumed
Idle == call.op = "none" /\ pc = "idle"

\* the caller takes the results of the completed call
Return ==
    /\ call.op # "none"
    /\ call' = NoCall
    /\ UNCHANGED <<kind, list, lmem, lorig, mp, mmem, st, smem, pc, part, data>>

Next ==
    \/ Idle /\ ListAdd
    \/ Idle /\ ListAddAll
    \/ Idle /\ ListClear
    \/ Idle /\ ListDelete
    \/ Idle /\ ListEqual
    \/ Idle /\ ListGet
    \/ Idle /\ ListInsert
    \/ Idle /\ ListInsertAll
    \/ Idle /\ ListRemove
    \/ Idle /\ ListRemoveAll
    \/ Idle /\ ListRetainAll
    \/ Idle /\ ListReverse
    \/ Idle /\ ListSet
    \/ Idle /\ ListSort
    \/ Idle /\ ListSwap
    \/ Idle /\ MapClear
    \/ Idle /\ MapContainsAll
    \/ Idle /\ MapEqual
    \/ Idle /\ MapPut
    \/ Idle /\ MapPutAll
    \/ Idle /\ MapRemove
    \/ Idle /\ MapSwap
    \/ Idle /\ SetAdd
    \/ Idle /\ SetAddAll
    \/ Idle /\ SetClear
    \/ Idle /\ SetEqual
    \/ Idle /\ SetRemove
    \/ Idle /\ SetRemoveAll
    \/ Idle /\ SetRetainAll
    \/ Return

Spec == Init /\ [][Next]_vars

\* a List cast from a non-nil slice of at most n elements: a literal, or a make
\* with spare capacity
CastListUpTo(n) ==
    /\ kind = "list"
    /\ \E s \in SeqsUpTo(Values, n) : \E c \in Len(s)..n :
        /\ lorig = [ptr |-> "orig", len |-> Len(s), cap |-> c]
        /\ lmem = [a \in {"orig", "new"} |-> IF a = "orig" THEN s \o Zeros(c - Len(s)) ELSE <<>>]
    /\ list = lorig
    /\ NoMap /\ NoSet

CastList == CastListUpTo(MaxLen)

\* Insert directly followed by Delete, on any list
InitInsertDelete == CastList /\ NoRun

NextInsertDelete ==
    \/ call.op = "none" /\ ListInsert
    \/ call.op = "Insert" /\ ListDelete

SpecInsertDelete == InitInsertDelete /\ [][NextInsertDelete]_vars

\* a Map cast from a non-nil map[int]int
CastMap ==
    /\ kind = "map"
    /\ mp = "orig"
    /\ \E t \in Tables : mmem = [a \in {"orig", "new"} |-> IF a = "orig" THEN t ELSE EmptyTable]
    /\ NoList /\ NoSet

\* a Set cast from a non-nil map[int]struct{}
CastSet ==
    /\ kind = "set"
    /\ st = "orig"
    /\ \E m \in SUBSET Values : smem = [a \in {"orig", "new"} |-> IF a = "orig" THEN m ELSE {}]
    /\ NoList /\ NoMap

\* a container cast from an existing slice or map, then mutated
InitAlias == (CastList \/ CastMap \/ CastSet) /\ NoRun

NextAlias ==
    \/ Idle /\ ListClear
    \/ Idle /\ ListDelete
    \/ Idle /\ ListRemove
    \/ Idle /\ ListRemoveAll
    \/ Idle /\ ListRetainAll
    \/ Idle /\ ListReverse
    \/ Idle /\ ListSet
    \/ Idle /\ ListSort
    \/ Idle /\ ListSwap
    \/ Idle /\ MapClear
    \/ Idle /\ MapPut
    \/ Idle /\ MapPutAll
    \/ Idle /\ MapRemove
    \/ Idle /\ MapSwap
    \/ Idle /\ SetAdd
    \/ Idle /\ SetAddAll
    \/ Idle /\ SetClear
    \/ Idle /\ SetRemove
    \/ Idle /\ SetRemoveAll
    \/ Idle /\ SetRetainAll
    \/ Return

SpecAlias == InitAlias /\ [][NextAlias]_vars

\* one Partitions call on any List or Set
InitPartitions == (CastList \/ CastSet) /\ NoRun

NextPartitions ==
    \/ ListPartitions
    \/ ListPartitionsLoop
    \/ ListPartitionsLast
    \/ SetPartitions
    \/ SetPartitionsLoop
    \/ SetPartitionsLast

SpecPartitions == InitPartitions /\ [][NextPartitions]_vars

\* one UnmarshalJSON of any document into any container
InitJSON ==
    /\ \/ CastListUpTo(MaxJSON) \/ InitList
       \/ CastMap \/ InitMap
       \/ CastSet \/ InitSet
    /\ NoRun

NextDecode ==
    \/ Idle /\ ListUnmarshalJSON(ListInputs)
    \/ Idle /\ MapUnmarshalJSON(MapInputs)
    \/ Idle /\ SetUnmarshalJSON(ListInputs)

SpecDecode == InitJSON /\ [][NextDecode]_vars

\* a container built by calls, MarshalJSON of it, then UnmarshalJSON of the bytes
\* into the container as other calls have changed it since
NextRoundTrip ==
    \/ Idle /\ ListMarshalJSON
    \/ Idle /\ list.len < MaxJSON /\ ListAdd
    \/ Idle /\ ListClear
    \/ Idle /\ data.bytes # <<>> /\ ListUnmarshalJSON({data.bytes})
    \/ Idle /\ MapMarshalJSON
    \/ Idle /\ MapPut
    \/ Idle /\ MapClear
    \/ Idle /\ data.bytes # <<>> /\ MapUnmarshalJSON({data.bytes})
    \/ Idle /\ SetMarshalJSON
    \/ Idle /\ SetAdd
    \/ Idle /\ SetClear
    \/ Idle /\ data.bytes # <<>> /\ SetUnmarshalJSON({data.bytes})
    \/ Return

SpecRoundTrip == Init /\ [][NextRoundTrip]_vars

\* a call on any container, then the same call with the same arguments
First == call.op = "none"

Again(op) == call.op = op /\ call.last.op = "none"

\* the same call again, with the arguments of the call before it
ListRemoveAllAgain == Again("RemoveAll") /\ ListRemoveAll /\ call'.values = call.values

SetRetainAllAgain == Again("RetainAll") /\ SetRetainAll /\ call'.values = call.values

SetAddAgain == Again("Add") /\ SetAdd /\ call'.value = call.value

NextRepeat ==
    \/ First /\ ListRemoveAll
    \/ ListRemoveAllAgain
    \/ First /\ SetRetainAll
    \/ SetRetainAllAgain
    \/ First /\ SetAdd
    \/ SetAddAgain

InitRepeat == (CastList \/ CastSet \/ InitSet) /\ NoRun

SpecRepeat == InitRepeat /\ [][NextRepeat]_vars

--------------------------------------------------------------------------
(* Claims *)

IsList(op) == kind = "list" /\ call.op = op

Now == Elems(list, lmem)

\* C1: after S.RetainAll(vs...) the list holds exactly the elements of the old S
\* that equal at least one value of vs, in their original order, and the call
\* returns true iff at least one element was dropped.
C1_RetainAllKeepsListed ==
    IsList("RetainAll") =>
        /\ Now = SelectSeq(call.pre, LAMBDA e : \E k \in 1..Len(call.values) : e = call.values[k])
        /\ call.modified = (Len(Now) # Len(call.pre))

\* C2: S.Equal(vs...) returns true iff S and vs have the same length and
\* S[i] equals vs[i] at every index i, also for an empty S and for no arguments.
C2_EqualIffSameElements ==
    IsList("Equal") =>
        (call.equal <=> /\ Len(call.pre) = Len(call.values)
                        /\ \A i \in 1..Len(call.pre) : call.pre[i] = call.values[i])

\* C4: Get, Set, Swap and Delete return ErrIndexOutOfRange iff i < 0 or i >= n;
\* Insert and InsertAll return it iff i < 0 or i > n, where n is the length.
C4_IndexRange ==
    LET n == Len(call.pre) IN
    /\ (kind = "list" /\ call.op \in {"Get", "Set", "Swap", "Delete"}) =>
            (call.err <=> (call.index < 0 \/ call.index >= n))
    /\ (kind = "list" /\ call.op \in {"Insert", "InsertAll"}) =>
            (call.err <=> (call.index < 0 \/ call.index > n))

\* C4's case: an Insert at i = n on a non-empty list succeeded
C4_Witness ==
    /\ IsList("Insert") /\ call.index = Len(call.pre) /\ Len(call.pre) > 0
    /\ ~call.err /\ Len(Now) = Len(call.pre) + 1

\* C10: S.Insert(i, v) with 0 <= i <= n followed by S.Delete(i): both succeed,
\* Delete returns v, and S has the length and the elements it had before the Insert.
C10_InsertThenDelete ==
    (/\ IsList("Delete") /\ call.last.op = "Insert"
     /\ call.last.index >= 0 /\ call.last.index <= Len(call.last.pre)
     /\ call.index = call.last.index) =>
        /\ ~call.last.err
        /\ ~call.err
        /\ call.previous = call.last.value
        /\ Now = call.last.pre

\* C10's case: an Insert in the middle of a list, then the Delete at the same index
C10_Witness ==
    /\ IsList("Delete") /\ call.last.op = "Insert" /\ ~call.last.err
    /\ call.index = call.last.index /\ call.index > 0
    /\ call.index < Len(call.last.pre)
    /\ call.previous # Empty /\ ~call.err

\* the container and the original reference are the same storage, and what the
\* container holds is what the original shows
SameStorage ==
    CASE kind = "list" -> /\ list.ptr = lorig.ptr
                          /\ \A k \in 1..list.len : lmem[lorig.ptr][k] = Now[k]
      [] kind = "map" -> mp = "orig" /\ Table(mp, mmem) = mmem["orig"]
      [] kind = "set" -> st = "orig" /\ Members(st, smem) = smem["orig"]

\* the contents seen through the original reference
OrigView ==
    CASE kind = "list" -> Elems(lorig, lmem)
      [] kind = "map" -> mmem["orig"]
      [] kind = "set" -> smem["orig"]

\* the operations C5 lists as keeping the storage
ListedOps ==
    CASE kind = "list" -> {"Set", "Swap", "Reverse", "Sort", "Remove", "Delete",
                           "RemoveAll", "RetainAll", "Clear"}
      [] kind = "map" -> {"Put", "PutAll", "Remove", "Swap", "Clear"}
      [] kind = "set" -> {"Add", "AddAll", "Remove", "RemoveAll", "RetainAll", "Clear"}

NumCalls == Len(part.calls)

ChunkLen(i) == Len(part.calls[i].chunk)

RECURSIVE ConcatChunks(_)
ConcatChunks(i) == IF i = 0 THEN <<>> ELSE ConcatChunks(i - 1) \o part.calls[i].chunk

AlwaysTrue == \A i \in 1..NumCalls : part.calls[i].next

Ceil(n, k) == (n + k - 1) \div k

\* the lengths of the chunks: all k except the last, which is in 1..k; they sum to n
ChunkLengths(n, k) ==
    /\ NumCalls >= 1
    /\ \A i \in 1..(NumCalls - 1) : ChunkLen(i) = k
    /\ ChunkLen(NumCalls) >= 1 /\ ChunkLen(NumCalls) <= k
    /\ Len(ConcatChunks(NumCalls)) = n

\* C7: for a List of n >= 1 elements and a size k > 0, when the action always
\* returns true, Partitions invokes it ceil(n/k) times, every chunk but the last
\* has length k, the last has length 1..k, the lengths sum to n and the chunks
\* concatenated in call order are the list.
C7_ListPartitionLaw ==
    (kind = "list" /\ pc = "done" /\ part.size > 0 /\ list.len >= 1 /\ AlwaysTrue) =>
        /\ NumCalls = Ceil(list.len, part.size)
        /\ ChunkLengths(list.len, part.size)
        /\ ConcatChunks(NumCalls) = Now

\* C7's case: a full chunk, then a shorter last chunk
C7_Witness ==
    /\ kind = "list" /\ pc = "done" /\ AlwaysTrue
    /\ part.size = 2 /\ NumCalls >= 2 /\ ChunkLen(NumCalls) = 1
    /\ ConcatChunks(NumCalls) = Now

\* C8: for a Set of n >= 1 values and a size k > 0, when the action always returns
\* true, the chunks' lengths at the time of each call sum to n, every chunk but
\* the last has length k, the last has length 1..k, and the values seen across
\* the calls are the values of the set, each seen once.
C8_SetPartitionLaw ==
    (kind = "set" /\ pc = "done" /\ part.size > 0
     /\ Cardinality(Members(st, smem)) >= 1 /\ AlwaysTrue) =>
        /\ ChunkLengths(Cardinality(Members(st, smem)), part.size)
        /\ Range(ConcatChunks(NumCalls)) = Members(st, smem)

\* C8's case: a full chunk, then a shorter last chunk, of a set
C8_Witness ==
    /\ kind = "set" /\ pc = "done" /\ AlwaysTrue
    /\ part.size = 2 /\ NumCalls = 2 /\ ChunkLen(2) = 1
    /\ Cardinality(Members(st, smem)) = 3

\* C9: once an invocation of the action returns false the action is not invoked
\* again in that call (a false result is the last one), and the action is never
\* invoked when size <= 0 or the container is empty.
C9_EarlyStop ==
    (kind \in {"list", "set"} /\ pc # "idle") =>
        /\ \A i \in 1..(NumCalls - 1) : part.calls[i].next
        /\ (part.size <= 0 \/ (kind = "list" /\ list.len = 0)
                           \/ (kind = "set" /\ Members(st, smem) = {})) => NumCalls = 0

\* C9's case: the first invocation returned false with elements left over
C9_Witness ==
    /\ kind = "list" /\ pc = "done"
    /\ NumCalls = 1 /\ ~part.calls[1].next
    /\ ChunkLen(1) = part.size /\ list.len > 2 * part.size

\* the container holds nothing
ContainerEmpty ==
    CASE kind = "list" -> list.len = 0
      [] kind = "map" -> DOMAIN Table(mp, mmem) = {}
      [] kind = "set" -> Members(st, smem) = {}

\* C3: when UnmarshalJSON of a List, Map or Set returns a decode error, the
\* container is empty afterwards.
C3_DecodeErrorLeavesEmpty ==
    (call.op = "UnmarshalJSON" /\ call.err) => ContainerEmpty

\* C6: MarshalJSON of a container C, then UnmarshalJSON of the bytes into a
\* container D of the same type, whatever D held: the call succeeds and D has the
\* elements of C in order (List), the pairs of C (Map), the members of C (Set).
C6_RoundTrip ==
    (call.op = "UnmarshalJSON" /\ data.bytes # <<>> /\ call.input = data.bytes) =>
        /\ ~call.err
        /\ CASE kind = "list" -> Now = data.src
             [] kind = "map" -> Table(mp, mmem) = data.src
             [] kind = "set" -> Members(st, smem) = data.src

\* C6's case: the bytes of a set of two values, encoded with the larger value
\* first, decoded into a set that held another value
C6_Witness ==
    /\ kind = "set" /\ call.op = "UnmarshalJSON" /\ call.input = data.bytes
    /\ Cardinality(data.src) = 2 /\ Len(data.bytes) = 5
    /\ NumberOf(data.bytes[2]) > NumberOf(data.bytes[4])
    /\ call.pre # {} /\ call.pre \cap data.src = {}
    /\ Members(st, smem) = data.src

\* the elements of s that are not in dropped, in their order
RECURSIVE Filtered(_, _)
Filtered(s, dropped) ==
    IF Len(s) = 0 THEN <<>>
    ELSE (IF s[1] \in dropped THEN <<>> ELSE <<s[1]>>) \o Filtered(Tail(s), dropped)

\* the call just made repeats the one before it
Repeated(op) == call.op = op /\ call.last.op = op

\* C11: after RemoveAll(vs...) the list holds the elements of the old list that
\* equal none of vs, in their order; the call returns true iff an element was
\* removed; a repeated RemoveAll(vs...) returns false and changes nothing.
C11_RemoveAllDropsListed ==
    IsList("RemoveAll") =>
        /\ Now = Filtered(call.pre, Range(call.values))
        /\ call.modified = (Len(Now) < Len(call.pre))
        /\ Repeated("RemoveAll") => (~call.modified /\ Now = call.pre)

\* C11's case: a repeated RemoveAll of two values after the first one dropped two
\* elements around one that stays
C11_Witness ==
    /\ IsList("RemoveAll") /\ Repeated("RemoveAll") /\ call.last.modified
    /\ Len(call.values) = 2 /\ call.values[1] # call.values[2]
    /\ Len(call.last.pre) = Len(Now) + 2 /\ Len(Now) >= 1
    /\ call.last.pre[1] = call.values[2] /\ call.last.pre[Len(call.last.pre)] = call.values[1]

IsSet(op) == kind = "set" /\ call.op = op

\* C12: after RetainAll(vs...) the set is the intersection of the old set with the
\* values of vs (vs empty or with duplicates included); the call returns true iff
\* a value was dropped; a second identical RetainAll(vs...) returns false and
\* leaves the set unchanged.
C12_SetRetainAllIntersects ==
    IsSet("RetainAll") =>
        /\ Members(st, smem) = call.pre \cap Range(call.values)
        /\ call.modified = (Members(st, smem) # call.pre)
        /\ Repeated("RetainAll") => (~call.modified /\ Members(st, smem) = call.pre)

\* C12's case: a repeated RetainAll of two values, the second of them in the set,
\* after the first call dropped a value and kept one
C12_Witness ==
    /\ IsSet("RetainAll") /\ Repeated("RetainAll") /\ call.last.modified
    /\ Len(call.values) = 2 /\ call.values[1] # call.values[2]
    /\ ~(call.values[1] \in call.last.pre)
    /\ Members(st, smem) = {call.values[2]}

\* C13: Equal(vs...) returns true iff len(vs) is the size of the set and the set of
\* the values of vs is the set; so the order of vs does not matter and a vs with
\* a duplicate never equals the set.
C13_SetEqualIffSameMembers ==
    IsSet("Equal") =>
        call.equal = (/\ Len(call.values) = Cardinality(Members(st, smem))
                      /\ Range(call.values) = Members(st, smem))

\* C13's case: Equal of three values, largest first, on the set of those values
C13_Witness ==
    /\ IsSet("Equal") /\ call.equal
    /\ Len(call.values) = 3
    /\ call.values[1] > call.values[2] /\ call.values[1] > call.values[3]

\* C13's other case: Equal of as many values as the set has, one of them twice
C13_WitnessDuplicate ==
    /\ IsSet("Equal") /\ ~call.equal
    /\ Len(call.values) = 2 /\ call.values[1] = call.values[2]
    /\ Cardinality(Members(st, smem)) = 2 /\ call.values[1] \in Members(st, smem)

\* C17: Add(v) returns true iff v was not in the set; Add(v) twice in a row
\* returns true (when v was absent) then false, and the second call leaves the
\* size and the membership unchanged.
C17_SetAddTwice ==
    IsSet("Add") =>
        /\ call.modified = ~(call.value \in call.pre)
        /\ Members(st, smem) = call.pre \cup {call.value}
        /\ (Repeated("Add") /\ call.last.value = call.value) =>
              /\ call.last.modified = ~(call.value \in call.last.pre)
              /\ ~call.modified
              /\ Members(st, smem) = call.pre
              /\ Cardinality(Members(st, smem)) = Cardinality(call.pre)

\* C17's case: the second Add of a value that the first Add put into a set of
\* other values
C17_Witness ==
    /\ IsSet("Add") /\ Repeated("Add") /\ call.last.value = call.value
    /\ call.last.modified /\ ~call.modified
    /\ call.last.pre # {} /\ Members(st, smem) = call.last.pre \cup {call.value}

IsMap(op) == kind = "map" /\ call.op = op

\* C14: Equal(E) returns true iff the map and E have the same key set and an equal
\* value at every key, an empty map compared with an empty or nil E included.
C14_MapEqualIffSameEntries ==
    IsMap("Equal") =>
        call.equal = (/\ DOMAIN Table(mp, mmem) = DOMAIN call.elements
                      /\ \A k \in DOMAIN call.elements :
                            Table(mp, mmem)[k] = call.elements[k])

\* C15: ContainsAll(E) returns true iff every key of E is a key of the map with an
\* equal value; a key of E absent from the map makes it false even when E maps
\* the key to the zero value; ContainsAll of an empty E is true.
C15_MapContainsAll ==
    IsMap("ContainsAll") =>
        /\ call.contains = \A k \in DOMAIN call.elements :
                              /\ k \in DOMAIN Table(mp, mmem)
                              /\ Table(mp, mmem)[k] = call.elements[k]
        /\ (\E k \in DOMAIN call.elements :
                ~(k \in DOMAIN Table(mp, mmem)) /\ call.elements[k] = Empty)
              => ~call.contains
        /\ DOMAIN call.elements = {} => call.contains

\* C15's case: E has a key of the map with its value, and a key the map lacks
\* with the zero value
C15_Witness ==
    /\ IsMap("ContainsAll") /\ ~call.contains
    /\ \E k, j \in DOMAIN call.elements :
        /\ k \in DOMAIN Table(mp, mmem) /\ Table(mp, mmem)[k] = call.elements[k]
        /\ ~(j \in DOMAIN Table(mp, mmem)) /\ call.elements[j] = Empty

\* C16: Swap(k, v) returns the value stored at k before the call, the zero value
\* when k was absent; afterwards the map has v at k, every other key keeps its
\* value, and the size grows by one iff k was absent.
C16_MapSwap ==
    IsMap("Swap") =>
        LET t == Table(mp, mmem) IN
        /\ call.previous = (IF call.key \in DOMAIN call.pre THEN call.pre[call.key] ELSE Empty)
        /\ call.key \in DOMAIN t /\ t[call.key] = call.value
        /\ DOMAIN t \ {call.key} = DOMAIN call.pre \ {call.key}
        /\ \A k \in DOMAIN t \ {call.key} : t[k] = call.pre[k]
        /\ Cardinality(DOMAIN t) = Cardinality(DOMAIN call.pre)
                                     + (IF call.key \in DOMAIN call.pre THEN 0 ELSE 1)

\* C16's case: Swap replaces a value that is not the zero value in a map of two keys
C16_Witness ==
    /\ IsMap("Swap") /\ call.key \in DOMAIN call.pre
    /\ call.previous # Empty /\ call.previous # call.value
    /\ Cardinality(DOMAIN Table(mp, mmem)) = 2
    /\ Table(mp, mmem)[call.key] = call.value

\* s without its element at position k (from 1)
Without(s, k) == SubSeq(s, 1, k - 1) \o SubSeq(s, k + 1, Len(s))

\* C18: Remove(v) removes only the occurrence of v at the lowest index: the length
\* drops by one, the other elements keep their order, later occurrences stay,
\* and the call returns true; when v does not occur the list is unchanged and
\* the call returns false.
C18_RemoveFirstOccurrence ==
    IsList("Remove") =>
        IF \E k \in 1..Len(call.pre) : call.pre[k] = call.value
        THEN /\ call.modified
             /\ Len(Now) = Len(call.pre) - 1
             /\ \E k \in 1..Len(call.pre) :
                    /\ call.pre[k] = call.value
                    /\ \A j \in 1..(k - 1) : call.pre[j] # call.value
                    /\ Now = Without(call.pre, k)
        ELSE ~call.modified /\ Now = call.pre

\* C18's case: the value occurred twice, not at the front, and still occurs once
C18_Witness ==
    /\ IsList("Remove") /\ call.modified
    /\ call.pre[1] # call.value
    /\ Cardinality({k \in 1..Len(call.pre) : call.pre[k] = call.value}) = 2
    /\ Cardinality({k \in 1..Len(Now) : Now[k] = call.value}) = 1
    /\ Now[Len(Now)] = call.value

\* C19: for 0 <= i <= n, after InsertAll(i, vs...) the list is old S[0..i), then
\* vs in order, then old S[i..n), of length n + len(vs); at i = n it appends, and
\* with no values the list is unchanged.
C19_InsertAllSplices ==
    (IsList("InsertAll") /\ call.index >= 0 /\ call.index <= Len(call.pre)) =>
        /\ ~call.err
        /\ Now = SubSeq(call.pre, 1, call.index) \o call.values
                    \o SubSeq(call.pre, call.index + 1, Len(call.pre))
        /\ Len(Now) = Len(call.pre) + Len(call.values)
        /\ call.index = Len(call.pre) => Now = call.pre \o call.values
        /\ Len(call.values) = 0 => Now = call.pre

\* C19's case: two values inserted inside a list of two other elements that had
\* the capacity for them
C19_Witness ==
    /\ IsList("InsertAll") /\ ~call.err /\ ~call.grew
    /\ call.index = 1 /\ Len(call.pre) = 2 /\ Len(call.values) = 2
    /\ call.values[1] # call.values[2] /\ call.pre[1] # call.pre[2]
    /\ Now = <<call.pre[1], call.values[1], call.values[2], call.pre[2]>>

\* C20: whenever Get, Set, Swap, Delete, Insert or InsertAll returns
\* ErrIndexOutOfRange, the list has the length and the elements it had before the
\* call, and the value returned by Get, Swap or Delete is the zero value.
C20_ErrorLeavesList ==
    (kind = "list" /\ call.err
     /\ call.op \in {"Get", "Set", "Swap", "Delete", "Insert", "InsertAll"}) =>
        /\ Len(Now) = Len(call.pre)
        /\ Now = call.pre
        /\ call.op \in {"Get", "Swap", "Delete"} => call.previous = Empty

\* C20's case: Delete at the index one past the end of a list whose last element
\* is not the zero value
C20_Witness ==
    /\ IsList("Delete") /\ call.err
    /\ call.index = Len(call.pre) /\ Len(call.pre) >= 2
    /\ call.pre[Len(call.pre)] # Empty
    /\ Now = call.pre

\* the kept chunks of the call, read now, one after the other
RECURSIVE ConcatKept(_)
ConcatKept(i) ==
    IF i = 0 THEN <<>> ELSE ConcatKept(i - 1) \o KeptChunk(part.partition, ChunkLen(i))

\* C21: the chunks one call of Set.Partitions hands to the action are independent:
\* a chunk the action kept is not changed by the later steps of the call, so the
\* kept chunks concatenated after the call give every value of the set once.
C21_KeptChunksIndependent ==
    (kind = "set" /\ pc # "idle") =>
        /\ \A i \in 1..NumCalls :
              KeptChunk(part.partition, ChunkLen(i)) = part.calls[i].chunk
        /\ (pc = "done" /\ part.size > 0 /\ AlwaysTrue) =>
              /\ Len(ConcatKept(NumCalls)) = Cardinality(Members(st, smem))
              /\ Range(ConcatKept(NumCalls)) = Members(st, smem)

==========================================================================
